---- MODULE Spec2Model ----
(***************************************************************************)
(* Model of the optparse single-header command-line option parser          *)
(* (include/optparse/optparse.h).                                          *)
(*                                                                         *)
(* Memory model.  A C string is a finite sequence of character codes (its  *)
(* terminating NUL is implicit: reading index Len(s) yields NUL).  A       *)
(* char* is the identity of a token (its index in the original argv), so   *)
(* permuting argv moves pointers and never touches the strings; a pointer  *)
(* into the middle of a token is the pair [id, off].  Reading a string     *)
(* beyond its terminator is undefined behaviour: the value read is a       *)
(* nondeterministic character (junk) and the state is marked ub.           *)
(***************************************************************************)
EXTENDS Integers, Sequences, FiniteSets, TLC

(* ------------------------------------------------------------------ *)
(* Character codes and program constants                               *)
(* ------------------------------------------------------------------ *)
NUL == 0
DASH == 45
EQ == 61
COLON == 58
QMARK == 63
QUOTE == 39
ch_a == 97
ch_r == 114
ch_o == 111
ch_x == 120

OPTPARSE_NONE == 0
OPTPARSE_REQUIRED == 1
OPTPARSE_OPTIONAL == 2

ErrmsgSize == 64
LongOnly == 256
LI_UNSET == 99

OPTPARSE_MSG_INVALID ==
  <<105, 110, 118, 97, 108, 105, 100, 32, 111, 112, 116, 105, 111, 110>>
OPTPARSE_MSG_MISSING ==
  <<111, 112, 116, 105, 111, 110, 32, 114, 101, 113, 117, 105, 114, 101, 115,
    32, 97, 110, 32, 97, 114, 103, 117, 109, 101, 110, 116>>
OPTPARSE_MSG_TOOMANY ==
  <<111, 112, 116, 105, 111, 110, 32, 116, 97, 107, 101, 115, 32, 110, 111,
    32, 97, 114, 103, 117, 109, 101, 110, 116, 115>>
ErrSep == <<32, 45, 45, 32, 39>>

(* The null pointer, as an argv entry and as optarg. *)
NULL == -1
NullPtr == [id |-> NULL, off |-> 0]
(* A null longname in an option table (a C string never holds -1). *)
NullName == <<-1>>

(* ------------------------------------------------------------------ *)
(* Bounds and inputs                                                   *)
(* ------------------------------------------------------------------ *)
MaxArgs == 3

(* Longest option name, and most tokens, of the command lines that exercise
   the error buffer. *)
MaxName == 45
ErrArgs == 1

(* Most tokens after argv[0] in each of two command lines parsed side by
   side. *)
TwoArgs == 2

(* argv[0] of the test harness, "prog" *)
Prog == <<112, 114, 111, 103>>

(* Tokens the command line is drawn from: a family around the short scanner,
   a family around the long matcher, and a family for whole runs. *)
Tokens ==
  { <<ch_x>>,                         \* x      plain non-option
    <<DASH>>,                         \* -      single dash
    <<DASH, DASH>>,                   \* --     terminator
    <<DASH, ch_r>>,                   \* -r
    <<DASH, ch_o>>,                   \* -o
    <<DASH, ch_o, ch_x>>,             \* -ox
    <<DASH, ch_a, ch_a, ch_r, ch_x>>, \* -aarx  cluster
    <<DASH, DASH, ch_r, ch_o>> }      \* --ro

LongTokens ==
  { <<ch_x>>,                         \* x      plain non-option
    <<DASH, DASH>>,                   \* --     terminator
    <<DASH, ch_o>>,                   \* -o
    <<DASH, ch_o, ch_x>>,             \* -ox
    <<DASH, DASH, ch_r, ch_o>>,       \* --ro
    <<DASH, DASH, ch_r>>,             \* --r
    <<DASH, DASH, ch_o>>,             \* --o
    <<DASH, DASH, ch_o, EQ, ch_x>> }  \* --o=x

RunTokens ==
  { <<ch_x>>,                         \* x      plain non-option
    <<DASH, DASH>>,                   \* --     terminator
    <<DASH, ch_r>>,                   \* -r
    <<DASH, ch_o, ch_x>>,             \* -ox
    <<DASH, ch_a, ch_a, ch_r, ch_x>>, \* -aarx  cluster
    <<DASH, DASH, ch_r, ch_o>> }      \* --ro

(* Short option specifications: "ar:o::" and "arx". *)
OptStrings ==
  { <<ch_a, ch_r, COLON, ch_o, COLON, COLON>>,
    <<ch_a, ch_r, ch_x>> }

(* Long option tables, without their {0, 0, OPTPARSE_NONE} terminator:
     {"ro", 'r', REQUIRED}, {NULL, 'a', NONE}, {"o", 'o', OPTIONAL}
     {"r", 'a', NONE}, {"r", 256, REQUIRED}, {"o", 256, NONE}            *)
LongTables ==
  { << [longname |-> <<ch_r, ch_o>>, shortname |-> ch_r, argtype |-> OPTPARSE_REQUIRED],
       [longname |-> NullName, shortname |-> ch_a, argtype |-> OPTPARSE_NONE],
       [longname |-> <<ch_o>>, shortname |-> ch_o, argtype |-> OPTPARSE_OPTIONAL] >>,
    << [longname |-> <<ch_r>>, shortname |-> ch_a, argtype |-> OPTPARSE_NONE],
       [longname |-> <<ch_r>>, shortname |-> LongOnly, argtype |-> OPTPARSE_REQUIRED],
       [longname |-> <<ch_o>>, shortname |-> LongOnly, argtype |-> OPTPARSE_NONE] >> }

(* Values an out-of-bounds character read may produce. *)
Junk == {NUL, ch_a, ch_x}

(* Inputs around the capacity of errmsg: names "x", "xx...x" of 29 to MaxName
   characters, as long flags with and without "=x", next to "-r", "-o" and
   a plain word; and one-entry tables {name, 256, NONE | REQUIRED}. *)
Xs(n) == [i \in 1..n |-> ch_x]
NameLens == {1} \cup 29..MaxName

ErrTokens ==
  { <<DASH, DASH>> \o Xs(n) : n \in NameLens }
    \cup { <<DASH, DASH>> \o Xs(n) \o <<EQ, ch_x>> : n \in NameLens }
    \cup { <<DASH, ch_r>>, <<DASH, ch_o>>, <<ch_x>> }

ErrTables ==
  { << [longname |-> Xs(n), shortname |-> LongOnly, argtype |-> t] >> :
      n \in NameLens, t \in {OPTPARSE_NONE, OPTPARSE_REQUIRED} }

(* Tokens of the command lines a caller's loop runs over. *)
LoopTokens ==
  { <<ch_x>>,                         \* x      plain non-option
    <<DASH, DASH>>,                   \* --     terminator
    <<DASH, ch_r>>,                   \* -r
    <<DASH, ch_a, ch_a, ch_r, ch_x>>, \* -aarx  cluster
    <<DASH, DASH, ch_r, ch_o>> }      \* --ro

(* Tokens of the command lines on which the option results are recorded. *)
SeenTokens ==
  { <<ch_x>>,                         \* x      plain non-option
    <<DASH, ch_a, ch_a, ch_r, ch_x>>, \* -aarx  cluster
    <<DASH, DASH, ch_r, ch_o>> }      \* --ro

(* Tokens of two command lines parsed side by side: x and -ar. *)
TwoTokens == { <<ch_x>>, <<DASH, ch_a, ch_r>> }

(* ------------------------------------------------------------------ *)
(* State                                                               *)
(* ------------------------------------------------------------------ *)
VARIABLES
  mem,        \* token id -> its characters (never written by the parser)
  parser,     \* the optparse_t struct
  longindex,  \* the caller's int after the last call (LI_UNSET before each call)
  ret,        \* value returned by the last call (token id for optparse_arg)
  lastop,     \* the last function called
  tok,        \* token the last scanner call parsed or terminated on
  ub,         \* an out-of-bounds read has happened since the last init
  hist,       \* record of a parse-then-drain run since the last init
  peer        \* a second optparse_t, over a second array, and its last result

vars == <<mem, parser, longindex, ret, lastop, tok, ub, hist, peer>>

Min(a, b) == IF a < b THEN a ELSE b
Max(a, b) == IF a > b THEN a ELSE b

(* s[i] of a C string, i counted from 0; the terminator is at Len(s). *)
Ch(s, i) == IF i < Len(s) THEN s[i + 1] ELSE NUL

(* arg[i] through a char*; beyond the terminator the read yields junk. *)
CharAt(arg, i, junk) == IF i <= Len(mem[arg]) THEN Ch(mem[arg], i) ELSE junk

(* The C string a pointer [id, off] designates. *)
StrOf(p) == SubSeq(mem[p.id], p.off + 1, Len(mem[p.id]))

(* ------------------------------------------------------------------ *)
(* optparse.h                                                          *)
(* ------------------------------------------------------------------ *)
Take(s, n) == SubSeq(s, 1, Min(Len(s), Max(n, 0)))

optparse__error_unbounded(options, msg, data) ==
  [options EXCEPT !.errmsg = msg \o ErrSep \o data \o <<QUOTE>>]

optparse__error(options, msg, data) ==
  LET m1 == Take(msg, ErrmsgSize - 1)
      m2 == m1 \o Take(ErrSep, (ErrmsgSize - 1) - Len(m1))
      m3 == m2 \o Take(data, (ErrmsgSize - 2) - Len(m2))
      m4 == IF Len(m3) < ErrmsgSize - 1 THEN Append(m3, QUOTE) ELSE m3
  IN  [options EXCEPT !.errmsg = m4]

optparse__is_dashdash(arg) ==
  /\ arg # NULL
  /\ Ch(mem[arg], 0) = DASH
  /\ Ch(mem[arg], 1) = DASH
  /\ Ch(mem[arg], 2) = NUL

optparse__is_shortopt_nolen(arg) ==
  /\ arg # NULL
  /\ Ch(mem[arg], 0) = DASH
  /\ Ch(mem[arg], 1) # DASH

optparse__is_shortopt_anydash(arg) ==
  /\ arg # NULL
  /\ Ch(mem[arg], 0) = DASH
  /\ Ch(mem[arg], 1) # NUL

optparse__is_shortopt(arg) ==
  /\ arg # NULL
  /\ Ch(mem[arg], 0) = DASH
  /\ Ch(mem[arg], 1) # DASH
  /\ Ch(mem[arg], 1) # NUL

optparse__is_longopt(arg) ==
  /\ arg # NULL
  /\ Ch(mem[arg], 0) = DASH
  /\ Ch(mem[arg], 1) = DASH
  /\ Ch(mem[arg], 2) # NUL

optparse__permute_nostore(options, index) ==
  [options EXCEPT !.argv =
     [i \in DOMAIN options.argv |->
        IF i >= index /\ i < options.optind - 1 THEN options.argv[i + 1]
        ELSE options.argv[i]]]

optparse__permute_far(options, index) ==
  LET nonoption == options.argv[index]
  IN  [options EXCEPT !.argv =
         [i \in DOMAIN options.argv |->
            IF i >= index /\ i < options.optind - 1 THEN options.argv[i + 1]
            ELSE IF i = options.optind + 1 THEN nonoption
            ELSE options.argv[i]]]

optparse__permute(options, index) ==
  LET nonoption == options.argv[index]
  IN  [options EXCEPT !.argv =
         [i \in DOMAIN options.argv |->
            IF i >= index /\ i < options.optind - 1 THEN options.argv[i + 1]
            ELSE IF i = options.optind - 1 THEN nonoption
            ELSE options.argv[i]]]

optparse__argtype(optstring, c) ==
  LET hits == {i \in 1..Len(optstring) : optstring[i] = c}
      p    == CHOOSE i \in hits : \A j \in hits : i <= j
  IN  IF c = COLON THEN -1
      ELSE IF hits = {} THEN -1
      ELSE IF Ch(optstring, p) = COLON
           THEN (IF Ch(optstring, p + 1) = COLON THEN 2 ELSE 1)
           ELSE OPTPARSE_NONE

optparse_init_keep(options, argv) ==
  [options EXCEPT !.argv = argv,
                  !.permute = TRUE,
                  !.optind = IF argv[0] # NULL THEN 1 ELSE 0,
                  !.optarg = NullPtr,
                  !.optopt = 0,
                  !.errmsg = <<>>]

optparse_init(options, argv) ==
  [options EXCEPT !.argv = argv,
                  !.permute = TRUE,
                  !.optind = IF argv[0] # NULL THEN 1 ELSE 0,
                  !.subopt = 0,
                  !.optarg = NullPtr,
                  !.optopt = 0,
                  !.errmsg = <<>>]

(* What a scanner call hands back: the struct, the return value, the token
   the innermost invocation parsed or terminated on, the caller's longindex,
   and whether a character was read out of bounds. *)
Result(o, r, t, li, u) == [o |-> o, r |-> r, tok |-> t, li |-> li, ub |-> u]

(* str[2] = {option[0], 0} *)
Str1(c) == IF c = NUL THEN <<>> ELSE <<c>>

optparse_case_invalid_keep(options, option, c) ==
  optparse__error([options EXCEPT !.optind = @ + 1],
                  OPTPARSE_MSG_INVALID, Str1(c))

optparse_case_invalid(options, option, c) ==
  optparse__error([options EXCEPT !.optind = @ + 1, !.subopt = 0],
                  OPTPARSE_MSG_INVALID, Str1(c))

optparse_case_none_keep(options, option, c1) ==
  IF c1 # NUL
  THEN [options EXCEPT !.subopt = @ + 1]
  ELSE [options EXCEPT !.optind = @ + 1]

optparse_case_none_stall(options, option, c1) ==
  IF c1 # NUL
  THEN options
  ELSE [options EXCEPT !.subopt = 0, !.optind = @ + 1]

optparse_case_none(options, option, c1) ==
  IF c1 # NUL
  THEN [options EXCEPT !.subopt = @ + 1]
  ELSE [options EXCEPT !.subopt = 0, !.optind = @ + 1]

optparse_case_required_nodash(options, option, c, c1, next) ==
  LET o1 == [options EXCEPT !.subopt = 0, !.optind = @ + 1]
  IN  IF c1 # NUL
      THEN [o |-> [o1 EXCEPT !.optarg = [id |-> option, off |-> options.subopt + 2]],
            r |-> c]
      ELSE IF next # NULL /\ Ch(mem[next], 0) # DASH
      THEN [o |-> [o1 EXCEPT !.optarg = [id |-> next, off |-> 0], !.optind = @ + 1],
            r |-> c]
      ELSE [o |-> optparse__error([o1 EXCEPT !.optarg = NullPtr],
                                  OPTPARSE_MSG_MISSING, Str1(c)),
            r |-> QMARK]

optparse_case_required_over(options, option, c, c1, next) ==
  LET o1 == [options EXCEPT !.subopt = 0, !.optind = @ + 1]
  IN  IF c1 # NUL
      THEN [o |-> [o1 EXCEPT !.optarg = [id |-> option, off |-> options.subopt + 2]],
            r |-> c]
      ELSE [o |-> [o1 EXCEPT !.optarg = [id |-> next, off |-> 0], !.optind = @ + 1],
            r |-> c]

optparse_case_required(options, option, c, c1, next) ==
  LET o1 == [options EXCEPT !.subopt = 0, !.optind = @ + 1]
  IN  IF c1 # NUL
      THEN [o |-> [o1 EXCEPT !.optarg = [id |-> option, off |-> options.subopt + 2]],
            r |-> c]
      ELSE IF next # NULL
      THEN [o |-> [o1 EXCEPT !.optarg = [id |-> next, off |-> 0], !.optind = @ + 1],
            r |-> c]
      ELSE [o |-> optparse__error([o1 EXCEPT !.optarg = NullPtr],
                                  OPTPARSE_MSG_MISSING, Str1(c)),
            r |-> QMARK]

optparse_case_optional_next(options, option, c1) ==
  LET next == options.argv[options.optind + 1]
  IN  IF c1 = NUL /\ next # NULL
      THEN [options EXCEPT !.subopt = 0, !.optind = @ + 2,
                           !.optarg = [id |-> next, off |-> 0]]
      ELSE [options EXCEPT !.subopt = 0,
                           !.optind = @ + 1,
                           !.optarg = IF c1 # NUL
                                      THEN [id |-> option, off |-> options.subopt + 2]
                                      ELSE NullPtr]

optparse_case_optional(options, option, c1) ==
  [options EXCEPT !.subopt = 0,
                  !.optind = @ + 1,
                  !.optarg = IF c1 # NUL
                             THEN [id |-> option, off |-> options.subopt + 2]
                             ELSE NullPtr]

(* optparse() from "option += options->subopt + 1" on. *)
optparse_shortopt(options, optstring, option, li, junk) ==
  LET off  == options.subopt + 1
      c    == CharAt(option, off, junk)
      c1   == CharAt(option, off + 1, junk)
      type == optparse__argtype(optstring, c)
      next == options.argv[options.optind + 1]
      o1   == [options EXCEPT !.optopt = c]
      oob  == off > Len(mem[option])
  IN  CASE type = -1 ->
             Result(optparse_case_invalid(o1, option, c), QMARK, option, li, oob)
        [] type = OPTPARSE_NONE ->
             Result(optparse_case_none(o1, option, c1), c, option, li, oob)
        [] type = OPTPARSE_REQUIRED ->
             LET q == optparse_case_required(o1, option, c, c1, next)
             IN  Result(q.o, q.r, option, li, oob)
        [] type = OPTPARSE_OPTIONAL ->
             Result(optparse_case_optional(o1, option, c1), c, option, li, oob)

(* "if (option == NULL) { return -1; }" *)
optparse_exhausted(options, li) == Result(options, -1, NULL, li, FALSE)

optparse_terminator_stay(options, option, li) ==
  Result(options, -1, option, li, FALSE)

(* "if (optparse__is_dashdash(option)) { options->optind++; return -1; }" *)
optparse_terminator(options, option, li) ==
  Result([options EXCEPT !.optind = @ + 1], -1, option, li, FALSE)

optparse_stop_advance(options, li) ==
  Result([options EXCEPT !.optind = @ + 1], -1, NULL, li, FALSE)

(* The non-option branch with permute off: "return -1". *)
optparse_stop(options, li) == Result(options, -1, NULL, li, FALSE)

(* The non-option branch with permute on, after the recursive call returned
   rec: "optparse__permute(options, index); options->optind--; return r". *)
optparse_skip(rec, index) ==
  [rec EXCEPT !.o = [optparse__permute(rec.o, index) EXCEPT !.optind = @ - 1]]

(* The three stores at the top of optparse(). *)
optparse_clear(options) ==
  [options EXCEPT !.errmsg = <<>>, !.optopt = 0, !.optarg = NullPtr]

RECURSIVE optparse(_, _, _, _)
optparse(options0, optstring, li, junk) ==
  LET options == optparse_clear(options0)
      option  == options.argv[options.optind]
  IN  IF option = NULL THEN optparse_exhausted(options, li)
      ELSE IF optparse__is_dashdash(option)
      THEN optparse_terminator(options, option, li)
      ELSE IF ~optparse__is_shortopt(option)
      THEN IF options.permute
           THEN LET index == options.optind
                    rec   == optparse([options EXCEPT !.optind = @ + 1],
                                      optstring, li, junk)
                IN  optparse_skip(rec, index)
           ELSE optparse_stop(options, li)
      ELSE optparse_shortopt(options, optstring, option, li, junk)

optparse_arg_skip(options) ==
  LET option == options.argv[options.optind]
      after  == IF option # NULL THEN options.argv[options.optind + 1] ELSE NULL
  IN  [o |-> [options EXCEPT !.subopt = 0,
                             !.optind = IF after # NULL THEN @ + 2
                                        ELSE IF option # NULL THEN @ + 1 ELSE @],
       r |-> IF after # NULL THEN after ELSE option]

optparse_arg(options) ==
  LET option == options.argv[options.optind]
  IN  [o |-> [options EXCEPT !.subopt = 0,
                             !.optind = IF option # NULL THEN @ + 1 ELSE @],
       r |-> option]

optparse_longopts_end(longopts, i) ==
  \/ i >= Len(longopts)                      \* the {0, 0, OPTPARSE_NONE} terminator
  \/ /\ longopts[i + 1].longname = NullName
     /\ longopts[i + 1].shortname = 0

(* Index of the entry the loops "for (i = 0; !optparse_longopts_end(...); ++i)"
   stop at. *)
LongoptsLen(longopts) ==
  CHOOSE i \in 0..Len(longopts) :
    /\ optparse_longopts_end(longopts, i)
    /\ \A j \in 0..(i - 1) : ~optparse_longopts_end(longopts, j)

RECURSIVE from_long_loop(_, _)
from_long_loop(longopts, i) ==
  IF optparse_longopts_end(longopts, i) THEN <<>>
  ELSE LET e == longopts[i + 1]
       IN  (IF e.shortname > 0 /\ e.shortname < 127
            THEN <<e.shortname>> \o [a \in 1..e.argtype |-> COLON]
            ELSE <<>>) \o from_long_loop(longopts, i + 1)

RECURSIVE from_long_loop_all(_, _)
from_long_loop_all(longopts, i) ==
  IF optparse_longopts_end(longopts, i) THEN <<>>
  ELSE LET e == longopts[i + 1]
       IN  (IF e.shortname > 0
            THEN <<e.shortname>> \o [a \in 1..e.argtype |-> COLON]
            ELSE <<>>) \o from_long_loop_all(longopts, i + 1)

optparse__from_long_all(longopts) == from_long_loop_all(longopts, 0)

optparse__from_long(longopts) == from_long_loop(longopts, 0)

RECURSIVE match_loop(_, _, _)
match_loop(a, n, i) ==
  IF Ch(a, i) # NUL /\ Ch(n, i) # NUL /\ Ch(a, i) # EQ
  THEN IF Ch(a, i) # Ch(n, i) THEN FALSE ELSE match_loop(a, n, i + 1)
  ELSE Ch(n, i) = NUL /\ (Ch(a, i) = NUL \/ Ch(a, i) = EQ)

RECURSIVE match_prefix_loop(_, _, _)
match_prefix_loop(a, n, i) ==
  IF Ch(a, i) # NUL /\ Ch(n, i) # NUL /\ Ch(a, i) # EQ
  THEN IF Ch(a, i) # Ch(n, i) THEN FALSE ELSE match_prefix_loop(a, n, i + 1)
  ELSE Ch(n, i) = NUL

optparse__longopts_match_prefix(longname, option) ==
  IF longname = NullName THEN FALSE ELSE match_prefix_loop(option, longname, 0)

optparse__longopts_match(longname, option) ==
  IF longname = NullName THEN FALSE ELSE match_loop(option, longname, 0)

(* Offset, within option, of the character after the first '=', or NULL. *)
optparse__longopts_arg(option) ==
  LET eqs == {i \in 1..Len(option) : option[i] = EQ}
  IN  IF eqs = {} THEN NULL
      ELSE CHOOSE i \in eqs : \A j \in eqs : i <= j

optparse__long_fallback_noerr(options, longopts, slot, li, junk) ==
  LET optstring == optparse__from_long(longopts)
      res       == optparse(options, optstring, li, junk)
      hits      == {i \in 0..(LongoptsLen(longopts) - 1) :
                      longopts[i + 1].shortname = res.o.optopt}
      first     == CHOOSE i \in hits : \A j \in hits : i <= j
  IN  IF slot
      THEN [res EXCEPT !.li = IF res.r \notin {-1, QMARK} /\ hits # {}
                              THEN first ELSE -1]
      ELSE res

optparse__long_fallback(options, longopts, slot, li, junk) ==
  LET optstring == optparse__from_long(longopts)
      res       == optparse(options, optstring, li, junk)
      hits      == {i \in 0..(LongoptsLen(longopts) - 1) :
                      longopts[i + 1].shortname = res.o.optopt}
      first     == CHOOSE i \in hits : \A j \in hits : i <= j
  IN  IF slot
      THEN [res EXCEPT !.li = IF res.r # -1 /\ hits # {} THEN first ELSE -1]
      ELSE res

optparse_long_entry_lenient(options, longopts, i, option, text, slot, li) ==
  LET e   == longopts[i + 1]
      li1 == IF slot THEN i ELSE li
      o2  == [options EXCEPT !.optopt = e.shortname]
      arg == optparse__longopts_arg(text)
      nxt == o2.argv[o2.optind]
  IN  IF arg # NULL
      THEN Result([o2 EXCEPT !.optarg = [id |-> option, off |-> 2 + arg]],
                  e.shortname, option, li1, FALSE)
      ELSE IF e.argtype = OPTPARSE_REQUIRED
      THEN IF nxt = NULL
           THEN Result(optparse__error(o2, OPTPARSE_MSG_MISSING, e.longname),
                       QMARK, option, li1, FALSE)
           ELSE Result([o2 EXCEPT !.optarg = [id |-> nxt, off |-> 0], !.optind = @ + 1],
                       e.shortname, option, li1, FALSE)
      ELSE Result(o2, e.shortname, option, li1, FALSE)

(* The body of the table loop of optparse_long() for the matching entry i. *)
optparse_long_entry(options, longopts, i, option, text, slot, li) ==
  LET e   == longopts[i + 1]
      li1 == IF slot THEN i ELSE li
      o2  == [options EXCEPT !.optopt = e.shortname]
      arg == optparse__longopts_arg(text)
      nxt == o2.argv[o2.optind]
  IN  IF e.argtype = OPTPARSE_NONE /\ arg # NULL
      THEN Result(optparse__error(o2, OPTPARSE_MSG_TOOMANY, e.longname),
                  QMARK, option, li1, FALSE)
      ELSE IF arg # NULL
      THEN Result([o2 EXCEPT !.optarg = [id |-> option, off |-> 2 + arg]],
                  e.shortname, option, li1, FALSE)
      ELSE IF e.argtype = OPTPARSE_REQUIRED
      THEN IF nxt = NULL
           THEN Result(optparse__error(o2, OPTPARSE_MSG_MISSING, e.longname),
                       QMARK, option, li1, FALSE)
           ELSE Result([o2 EXCEPT !.optarg = [id |-> nxt, off |-> 0], !.optind = @ + 1],
                       e.shortname, option, li1, FALSE)
      ELSE Result(o2, e.shortname, option, li1, FALSE)

(* optparse_long() from "options->errmsg[0] = '\0'" on. *)
optparse_longopt(options, longopts, option, slot, li) ==
  LET o1      == [options EXCEPT !.errmsg = <<>>, !.optopt = 0, !.optarg = NullPtr,
                                 !.optind = @ + 1]
      text    == SubSeq(mem[option], 3, Len(mem[option]))
      matches == {i \in 0..(LongoptsLen(longopts) - 1) :
                    optparse__longopts_match(longopts[i + 1].longname, text)}
      first   == CHOOSE i \in matches : \A j \in matches : i <= j
  IN  IF matches = {}
      THEN Result(optparse__error(o1, OPTPARSE_MSG_INVALID, text), QMARK, option, li, FALSE)
      ELSE optparse_long_entry(o1, longopts, first, option, text, slot, li)

RECURSIVE optparse_long(_, _, _, _, _)
optparse_long(options, longopts, slot, li, junk) ==
  LET option == options.argv[options.optind]
  IN  IF option = NULL THEN optparse_exhausted(options, li)
      ELSE IF optparse__is_dashdash(option)
      THEN optparse_terminator(options, option, li)
      ELSE IF optparse__is_shortopt(option)
      THEN optparse__long_fallback(options, longopts, slot, li, junk)
      ELSE IF ~optparse__is_longopt(option)
      THEN IF options.permute
           THEN LET index == options.optind
                    rec   == optparse_long([options EXCEPT !.optind = @ + 1],
                                           longopts, slot, li, junk)
                IN  optparse_skip(rec, index)
           ELSE optparse_stop(options, li)
      ELSE optparse_longopt(options, longopts, option, slot, li)

(* Highest index at which a call of optparse() reads argv: argv[optind]
   (line 220), argv[optind + 1] for a short-option token (line 241), the
   reads of the recursive call and of optparse__permute (up to optind - 1 of
   the returning call) for a skipped non-option. *)
RECURSIVE optparse_maxread(_, _, _)
optparse_maxread(options, optstring, junk) ==
  LET option == options.argv[options.optind]
  IN  IF option = NULL \/ optparse__is_dashdash(option) THEN options.optind
      ELSE IF ~optparse__is_shortopt(option)
      THEN IF options.permute
           THEN LET inner == [options EXCEPT !.optind = @ + 1]
                IN  Max(optparse_maxread(inner, optstring, junk),
                        optparse(inner, optstring, LI_UNSET, junk).o.optind - 1)
           ELSE options.optind
      ELSE options.optind + 1

(* The same for optparse_long(): argv[optind] (line 293), the reads of the
   fallback, of the recursive call and of optparse__permute, and
   argv[optind] after the increment (line 335) for a matching entry that
   requires an argument and has no inline one. *)
RECURSIVE optparse_long_maxread(_, _, _)
optparse_long_maxread(options, longopts, junk) ==
  LET option  == options.argv[options.optind]
      text    == SubSeq(mem[option], 3, Len(mem[option]))
      matches == {i \in 0..(LongoptsLen(longopts) - 1) :
                    optparse__longopts_match(longopts[i + 1].longname, text)}
      first   == CHOOSE i \in matches : \A j \in matches : i <= j
  IN  IF option = NULL \/ optparse__is_dashdash(option) THEN options.optind
      ELSE IF optparse__is_shortopt(option)
      THEN optparse_maxread(options, optparse__from_long(longopts), junk)
      ELSE IF ~optparse__is_longopt(option)
      THEN IF options.permute
           THEN LET inner == [options EXCEPT !.optind = @ + 1]
                IN  Max(optparse_long_maxread(inner, longopts, junk),
                        optparse_long(inner, longopts, FALSE, LI_UNSET, junk).o.optind - 1)
           ELSE options.optind
      ELSE IF /\ matches # {}
              /\ longopts[first + 1].argtype = OPTPARSE_REQUIRED
              /\ optparse__longopts_arg(text) = NULL
      THEN options.optind + 1
      ELSE options.optind

(* ------------------------------------------------------------------ *)
(* Operations                                                          *)
(* ------------------------------------------------------------------ *)
Uninit ==
  [argv |-> [i \in {0} |-> NULL], permute |-> FALSE, optind |-> 0, optopt |-> 0,
   optarg |-> NullPtr, errmsg |-> <<>>, subopt |-> 0]

(* The second struct: base is the address of its array in the memory that
   holds both arrays, o its fields other than argv, r the value its last call
   returned, ub whether a call on it has read out of bounds.  No second
   struct exists where base is NULL. *)
NoPeer == [base |-> NULL, o |-> Uninit, r |-> 0, ub |-> FALSE]

(* ------------------------------------------------------------------ *)
(* Record of a run that follows the documented protocol: permute chosen *)
(* before the first call, one scanner called until it returns -1, then  *)
(* optparse_arg until it returns NULL.  orig: argv as optparse_init got *)
(* it; mode: permute during the run; opts: the token of each option     *)
(* result, in the order reported; used: tokens consumed as an option,   *)
(* an option value or "--"; drained: tokens optparse_arg returned.      *)
(* ------------------------------------------------------------------ *)
HistStart(argv) ==
  [phase |-> "parse", by |-> "none", mode |-> TRUE, opts |-> <<>>, used |-> {},
   drained |-> <<>>, orig |-> argv]
HistOff == [HistStart([i \in {0} |-> NULL]) EXCEPT !.phase = "off"]
HistNone == [HistStart([i \in {0} |-> NULL]) EXCEPT !.phase = "untracked"]

(* Record of what the scanners have reported since the last optparse_init:
   used holds, for each option result, the token it came from and the
   offset in the token of the flag character (0 for a long flag). *)
HistSeen == [HistStart([i \in {0} |-> NULL]) EXCEPT !.phase = "seen"]

Occurrence(options, res) ==
  <<res.tok, IF optparse__is_shortopt(res.tok) THEN options.subopt + 1 ELSE 0>>

HistScan(h, f, options, res) ==
  IF h.phase = "untracked" THEN h
  ELSE IF h.phase = "seen"
  THEN IF res.r = -1 \/ res.ub THEN h
       ELSE [h EXCEPT !.used = @ \cup {Occurrence(options, res)}]
  ELSE IF h.phase = "parse" /\ h.by \in {"none", f} /\ ~res.ub
  THEN [h EXCEPT !.phase = IF res.r = -1 THEN "drain" ELSE "parse",
                 !.by = f,
                 !.mode = options.permute,
                 !.opts = IF res.r = -1 THEN @ ELSE Append(@, res.tok),
                 !.used = @ \cup ({res.tok, res.o.optarg.id} \ {NULL})]
  ELSE HistOff

HistArg(h, r) ==
  IF h.phase \in {"untracked", "seen"} THEN h
  ELSE IF h.phase = "drain"
  THEN IF r = NULL THEN [h EXCEPT !.phase = "drained"]
       ELSE [h EXCEPT !.drained = Append(@, r)]
  ELSE HistOff

HistInit(h, argv) ==
  IF h.phase = "untracked" THEN h
  ELSE IF h.phase = "seen" THEN HistSeen
  ELSE HistStart(argv)

HistMode(h, options) ==
  IF h.phase \in {"untracked", "seen"} THEN h
  ELSE IF h.phase = "parse" /\ h.by = "none" THEN [h EXCEPT !.mode = ~options.permute]
  ELSE HistOff

(* The harness builds {"prog", args..., NULL} and calls optparse_init;
   n = -1 is the array {NULL}, without a program name. *)
InitOver(T, tracked) ==
  \E n \in (-1)..MaxArgs : \E toks \in [1..n -> T] :
    /\ mem = [i \in 0..n |-> IF i = 0 THEN Prog ELSE toks[i]]
    /\ parser = optparse_init(Uninit, [i \in 0..(n + 1) |-> IF i <= n THEN i ELSE NULL])
    /\ hist = HistInit(IF tracked THEN HistOff ELSE HistNone,
                       [i \in 0..(n + 1) |-> IF i <= n THEN i ELSE NULL])
    /\ longindex = LI_UNSET
    /\ ret = 0
    /\ lastop = "optparse_init"
    /\ tok = NULL
    /\ ub = FALSE
    /\ peer = NoPeer

Init == InitOver(Tokens, FALSE)
InitLong == InitOver(LongTokens, FALSE)
InitRun == InitOver(RunTokens, TRUE)

InitLoop == InitOver(LoopTokens, FALSE)

InitErr ==
  \E n \in 1..ErrArgs : \E toks \in [1..n -> ErrTokens] :
    /\ mem = [i \in 0..n |-> IF i = 0 THEN Prog ELSE toks[i]]
    /\ parser = optparse_init(Uninit, [i \in 0..(n + 1) |-> IF i <= n THEN i ELSE NULL])
    /\ hist = HistNone
    /\ longindex = LI_UNSET
    /\ ret = 0
    /\ lastop = "optparse_init"
    /\ tok = NULL
    /\ ub = FALSE
    /\ peer = NoPeer

(* {"prog", args..., NULL} over SeenTokens, with the record of what the
   scanners report. *)
InitSeen ==
  \E n \in 1..MaxArgs : \E toks \in [1..n -> SeenTokens] :
    /\ mem = [i \in 0..n |-> IF i = 0 THEN Prog ELSE toks[i]]
    /\ parser = optparse_init(Uninit, [i \in 0..(n + 1) |-> IF i <= n THEN i ELSE NULL])
    /\ hist = HistSeen
    /\ longindex = LI_UNSET
    /\ ret = 0
    /\ lastop = "optparse_init"
    /\ tok = NULL
    /\ ub = FALSE
    /\ peer = NoPeer

(* With subopt = 0 the characters read are at indices 1 and 2 of a token
   that optparse__is_shortopt accepted, hence within it. *)
JunkFor(options) == IF options.subopt = 0 THEN {NUL} ELSE Junk

Optparse ==
  \E optstring \in OptStrings : \E junk \in JunkFor(parser) :
    LET res == optparse(parser, optstring, LI_UNSET, junk)
    IN  /\ ~ub
        /\ parser' = res.o
        /\ ret' = res.r
        /\ tok' = res.tok
        /\ ub' = res.ub
        /\ lastop' = "optparse"
        /\ longindex' = LI_UNSET
        /\ hist' = HistScan(hist, "optparse", parser, res)
        /\ UNCHANGED <<mem, peer>>

OptparseLong ==
  \E longopts \in LongTables : \E slot \in BOOLEAN : \E junk \in JunkFor(parser) :
    LET res == optparse_long(parser, longopts, slot, LI_UNSET, junk)
    IN  /\ ~ub
        /\ parser' = res.o
        /\ ret' = res.r
        /\ tok' = res.tok
        /\ ub' = res.ub
        /\ longindex' = res.li
        /\ lastop' = "optparse_long"
        /\ hist' = HistScan(hist, "optparse_long", parser, res)
        /\ UNCHANGED <<mem, peer>>

OptparseArg ==
  LET res == optparse_arg(parser)
  IN  /\ ~ub
      /\ parser' = res.o
      /\ ret' = res.r
      /\ tok' = NULL
      /\ lastop' = "optparse_arg"
      /\ longindex' = LI_UNSET
      /\ hist' = HistArg(hist, res.r)
      /\ UNCHANGED <<mem, ub, peer>>

OptparseInit ==
  /\ parser' = optparse_init(parser, parser.argv)
  /\ ret' = 0
  /\ tok' = NULL
  /\ ub' = FALSE
  /\ lastop' = "optparse_init"
  /\ longindex' = LI_UNSET
  /\ hist' = HistInit(hist, parser.argv)
  /\ UNCHANGED <<mem, peer>>

(* The caller writes options->permute between calls. *)
SetPermute ==
  /\ ~ub
  /\ parser' = [parser EXCEPT !.permute = ~@]
  /\ ret' = 0
  /\ tok' = NULL
  /\ lastop' = "set_permute"
  /\ longindex' = LI_UNSET
  /\ hist' = HistMode(hist, parser)
  /\ UNCHANGED <<mem, ub, peer>>

(* optparse_long called with one of the tables ErrTables. *)
OptparseLongErr ==
  \E longopts \in ErrTables : \E slot \in BOOLEAN : \E junk \in JunkFor(parser) :
    LET res == optparse_long(parser, longopts, slot, LI_UNSET, junk)
    IN  /\ ~ub
        /\ parser' = res.o
        /\ ret' = res.r
        /\ tok' = res.tok
        /\ ub' = res.ub
        /\ longindex' = res.li
        /\ lastop' = "optparse_long"
        /\ hist' = HistScan(hist, "optparse_long", parser, res)
        /\ UNCHANGED <<mem, peer>>

Next == Optparse \/ OptparseLong \/ OptparseArg \/ OptparseInit \/ SetPermute
(* The array of the second struct: the memory that holds both arrays, indexed
   from the address base; and the memory, given that array. *)
ViewOf(heap, base) == [i \in {j - base : j \in DOMAIN heap} |-> heap[i + base]]
HeapOf(view, base) == [j \in {i + base : i \in DOMAIN view} |-> view[j - base]]

(* The second struct as the functions see it. *)
PeerStruct == [peer.o EXCEPT !.argv = ViewOf(parser.argv, peer.base)]

(* Two arrays {"prog", args..., NULL} one behind the other in memory, each
   with its own struct; parser.argv is that memory, seen from address 0. *)
InitTwo ==
  \E n \in 1..TwoArgs : \E m \in 1..TwoArgs :
  \E ta \in [1..n -> TwoTokens] : \E tb \in [1..m -> TwoTokens] :
    LET heap == [j \in 0..(n + m + 3) |->
                   IF j <= n THEN j
                   ELSE IF j = n + 1 THEN NULL
                   ELSE IF j <= n + m + 2 THEN j - 1
                   ELSE NULL]
    IN  /\ mem = [i \in 0..(n + m + 1) |->
                    IF i = 0 \/ i = n + 1 THEN Prog
                    ELSE IF i <= n THEN ta[i] ELSE tb[i - n - 1]]
        /\ parser = optparse_init(Uninit, heap)
        /\ peer = [NoPeer EXCEPT
                     !.base = n + 2,
                     !.o = [optparse_init(Uninit, ViewOf(heap, n + 2))
                              EXCEPT !.argv = Uninit.argv]]
        /\ hist = HistNone
        /\ longindex = LI_UNSET
        /\ ret = 0
        /\ lastop = "optparse_init"
        /\ tok = NULL
        /\ ub = FALSE

(* A call on the second struct has returned res. *)
PeerResult(res) ==
  /\ peer' = [peer EXCEPT !.o = [res.o EXCEPT !.argv = Uninit.argv],
                          !.r = res.r, !.ub = res.ub]
  /\ parser' = [parser EXCEPT !.argv = HeapOf(res.o.argv, peer.base)]
  /\ UNCHANGED <<mem, longindex, ret, lastop, tok, ub, hist>>

PeerOptparse ==
  /\ peer.base # NULL
  /\ ~peer.ub
  /\ \E optstring \in OptStrings : \E junk \in JunkFor(peer.o) :
       PeerResult(optparse(PeerStruct, optstring, LI_UNSET, junk))

PeerOptparseLong ==
  /\ peer.base # NULL
  /\ ~peer.ub
  /\ \E longopts \in LongTables : \E slot \in BOOLEAN : \E junk \in JunkFor(peer.o) :
       PeerResult(optparse_long(PeerStruct, longopts, slot, LI_UNSET, junk))

PeerOptparseArg ==
  /\ peer.base # NULL
  /\ ~peer.ub
  /\ LET res == optparse_arg(PeerStruct)
     IN  PeerResult(Result(res.o, res.r, NULL, LI_UNSET, FALSE))

PeerOptparseInit ==
  /\ peer.base # NULL
  /\ PeerResult(Result(optparse_init(PeerStruct, PeerStruct.argv),
                       0, NULL, LI_UNSET, FALSE))

NextTwo ==
  \/ Next
  \/ PeerOptparse \/ PeerOptparseLong \/ PeerOptparseArg \/ PeerOptparseInit

NextErr == Optparse \/ OptparseLongErr \/ OptparseArg \/ OptparseInit \/ SetPermute

Spec == Init /\ [][Next]_vars
SpecLong == InitLong /\ [][Next]_vars
SpecRun == InitRun /\ [][Next]_vars
SpecErr == InitErr /\ [][NextErr]_vars
SpecTwo == InitTwo /\ [][NextTwo]_vars
SpecSeen == InitSeen /\ [][Next]_vars

(* The caller's loop "while ((c = optparse(...)) != -1)": permute is chosen
   before the first call, then one of the two scanners is called, with any
   option specification, as long as it has not returned -1. *)
LoopSetPermute == lastop = "optparse_init" /\ SetPermute

LoopOptparse ==
  /\ lastop \in {"optparse_init", "set_permute", "optparse"}
  /\ ret # -1
  /\ Optparse

LoopOptparseLong ==
  /\ lastop \in {"optparse_init", "set_permute", "optparse_long"}
  /\ ret # -1
  /\ OptparseLong

NextLoop == LoopSetPermute \/ LoopOptparse \/ LoopOptparseLong

(* The loop does not stop calling before it has seen -1. *)
SpecLoop ==
  InitLoop /\ [][NextLoop]_vars /\ WF_vars(LoopOptparse \/ LoopOptparseLong)

(* ------------------------------------------------------------------ *)
(* A parse repeated on the array it has permuted: one scanner, with one  *)
(* option specification, is called until it returns -1 and optparse_arg  *)
(* until it returns NULL; optparse_init is then called on the same array *)
(* and the same loop runs again.  hist holds the pass, the position in   *)
(* the loop, the scanner and specification in use (by), what the calls   *)
(* of this pass have returned, and what the first pass left.             *)
(* ------------------------------------------------------------------ *)
NoScanner == [f |-> "none", optstring |-> <<>>, longopts |-> <<>>]

TwiceStart ==
  [pass |-> 1, phase |-> "parse", by |-> NoScanner, results |-> <<>>,
   drained |-> <<>>,
   first |-> [results |-> <<>>, drained |-> <<>>, argv |-> Uninit.argv]]

(* What the caller reads after a call: the return value, the text of
   optarg and errmsg. *)
Outcome(res) ==
  [r |-> res.r,
   optarg |-> IF res.o.optarg = NullPtr THEN NullName ELSE StrOf(res.o.optarg),
   errmsg |-> res.o.errmsg]

InitTwice ==
  \E n \in 0..MaxArgs : \E toks \in [1..n -> RunTokens] :
    /\ mem = [i \in 0..n |-> IF i = 0 THEN Prog ELSE toks[i]]
    /\ parser = optparse_init(Uninit, [i \in 0..(n + 1) |-> IF i <= n THEN i ELSE NULL])
    /\ hist = TwiceStart
    /\ longindex = LI_UNSET
    /\ ret = 0
    /\ lastop = "optparse_init"
    /\ tok = NULL
    /\ ub = FALSE
    /\ peer = NoPeer

(* A scanner call of the loop, made with the specification by, returned
   res. *)
TwiceScan(by, res) ==
  /\ ~ub
  /\ hist.phase = "parse"
  /\ hist.by \in {NoScanner, by}
  /\ parser' = res.o
  /\ ret' = res.r
  /\ tok' = res.tok
  /\ ub' = res.ub
  /\ longindex' = res.li
  /\ lastop' = by.f
  /\ hist' = IF res.r = -1
             THEN [hist EXCEPT !.by = by, !.phase = "drain"]
             ELSE [hist EXCEPT !.by = by, !.results = Append(@, Outcome(res))]
  /\ UNCHANGED <<mem, peer>>

TwiceOptparse ==
  \E optstring \in OptStrings : \E junk \in JunkFor(parser) :
    TwiceScan([NoScanner EXCEPT !.f = "optparse", !.optstring = optstring],
              optparse(parser, optstring, LI_UNSET, junk))

TwiceOptparseLong ==
  \E longopts \in LongTables : \E junk \in JunkFor(parser) :
    TwiceScan([NoScanner EXCEPT !.f = "optparse_long", !.longopts = longopts],
              optparse_long(parser, longopts, TRUE, LI_UNSET, junk))

TwiceOptparseArg ==
  LET res == optparse_arg(parser)
  IN  /\ ~ub
      /\ hist.phase = "drain"
      /\ parser' = res.o
      /\ ret' = res.r
      /\ tok' = NULL
      /\ lastop' = "optparse_arg"
      /\ longindex' = LI_UNSET
      /\ hist' = IF res.r = NULL THEN [hist EXCEPT !.phase = "end"]
                 ELSE [hist EXCEPT !.drained = Append(@, res.r)]
      /\ UNCHANGED <<mem, ub, peer>>

TwiceOptparseInit ==
  /\ hist.phase = "end"
  /\ hist.pass = 1
  /\ parser' = optparse_init(parser, parser.argv)
  /\ ret' = 0
  /\ tok' = NULL
  /\ ub' = FALSE
  /\ lastop' = "optparse_init"
  /\ longindex' = LI_UNSET
  /\ hist' = [TwiceStart EXCEPT
                !.pass = 2,
                !.by = hist.by,
                !.first = [results |-> hist.results, drained |-> hist.drained,
                           argv |-> parser.argv]]
  /\ UNCHANGED <<mem, peer>>

NextTwice ==
  TwiceOptparse \/ TwiceOptparseLong \/ TwiceOptparseArg \/ TwiceOptparseInit

SpecTwice == InitTwice /\ [][NextTwice]_vars

(* ------------------------------------------------------------------ *)
(* Vocabulary of the properties                                        *)
(* ------------------------------------------------------------------ *)
Scanners == {"optparse", "optparse_long"}

(* The token at the cursor. *)
Cur == parser.argv[parser.optind]

DashDash == <<DASH, DASH>>

(* A token that is no option: it does not start with a dash, or is "-". *)
IsNonOption(arg) == arg # NULL /\ (Ch(mem[arg], 0) # DASH \/ Len(mem[arg]) = 1)

(* One dash followed by at least one character that is not a dash. *)
IsCluster(arg) ==
  arg # NULL /\ Len(mem[arg]) >= 2 /\ mem[arg][1] = DASH /\ mem[arg][2] # DASH

(* Two dashes followed by at least one character. *)
IsLongFlag(arg) ==
  arg # NULL /\ Len(mem[arg]) >= 3 /\ mem[arg][1] = DASH /\ mem[arg][2] = DASH

Range(s) == {s[i] : i \in 1..Len(s)}
Increasing(s) == \A i, j \in 1..Len(s) : i < j => s[i] < s[j]
NonDecreasing(s) == \A i, j \in 1..Len(s) : i < j => s[i] <= s[j]
IsPrefix(s, t) == Len(s) <= Len(t) /\ \A i \in 1..Len(s) : s[i] = t[i]

(* The tokens after argv[0]. *)
Args == DOMAIN mem \ {0}

(* Positions, in the array the run started from, of a sequence of tokens. *)
OrigPos(s) ==
  [i \in 1..Len(s) |-> CHOOSE k \in DOMAIN hist.orig : hist.orig[k] = s[i]]

(* ------------------------------------------------------------------ *)
(* C1  Permutation order preservation.  In a run with permute on (one  *)
(* scanner called until it returns -1, then optparse_arg until NULL),  *)
(* the option results come in the original order of their tokens, the  *)
(* drained positionals come in their original order, and once the      *)
(* drain is complete they are exactly the tokens that were not         *)
(* consumed as an option, an option value or "--".                     *)
(* ------------------------------------------------------------------ *)
C1_PermutationOrder ==
  (hist.mode /\ hist.phase \in {"parse", "drain", "drained"}) =>
    /\ NonDecreasing(OrigPos(hist.opts))
    /\ Increasing(OrigPos(hist.drained))
    /\ Range(hist.drained) \cap hist.used = {}
    /\ hist.phase = "drained" => Range(hist.drained) = Args \ hist.used

(* A completed run in which a positional that stood before an option was
   drained after it, together with a second positional. *)
C1_Witness ==
  /\ hist.mode
  /\ hist.phase = "drained"
  /\ Len(hist.drained) = 2
  /\ Len(hist.opts) >= 1
  /\ OrigPos(hist.drained)[1] < OrigPos(hist.opts)[1]
  /\ OrigPos(hist.opts)[1] < OrigPos(hist.drained)[2]

(* ------------------------------------------------------------------ *)
(* C2  Strict mode.  With permute off, a scanner call on a non-option  *)
(* at the cursor returns -1, parses no token and leaves the cursor     *)
(* where it is; and no call made with permute off reorders argv.       *)
(* ------------------------------------------------------------------ *)
C2_StrictStop ==
  [][ (~parser.permute /\ lastop' \in Scanners \cup {"optparse_arg"}) =>
        /\ parser'.argv = parser.argv
        /\ (lastop' \in Scanners /\ IsNonOption(Cur)) =>
             /\ ret' = -1
             /\ tok' = NULL
             /\ parser'.optind = parser.optind ]_vars

(* Stopped in strict mode at a non-option that an option follows. *)
C2_Witness ==
  /\ lastop \in Scanners
  /\ ~parser.permute
  /\ ret = -1
  /\ IsNonOption(Cur)
  /\ IsCluster(parser.argv[parser.optind + 1])

(* ------------------------------------------------------------------ *)
(* C3  Strict mode stop on [positional1, --flag, positional2].         *)
(* ------------------------------------------------------------------ *)
C3_Shape ==
  /\ DOMAIN hist.orig = 0..4
  /\ IsNonOption(hist.orig[1])
  /\ IsLongFlag(hist.orig[2])
  /\ IsNonOption(hist.orig[3])

C3_StrictRun ==
  /\ C3_Shape
  /\ ~hist.mode
  /\ hist.by = "optparse_long"
  /\ hist.phase \in {"drain", "drained"}

(* C3 as stated: the first call signals done and the first positional
   drained is the flag token. *)
C3_FlagDrainedFirst ==
  (C3_StrictRun /\ Len(hist.drained) >= 1) =>
     (hist.opts = <<>> /\ hist.drained[1] = hist.orig[2])

(* C3 as amended: the first call signals done without consuming anything,
   and draining yields positional1, then the flag token, then positional2. *)
C3_StrictDrain ==
  C3_StrictRun =>
    /\ hist.opts = <<>>
    /\ hist.used = {}
    /\ IsPrefix(hist.drained, <<hist.orig[1], hist.orig[2], hist.orig[3]>>)
    /\ hist.phase = "drained" =>
         hist.drained = <<hist.orig[1], hist.orig[2], hist.orig[3]>>

C3_Witness == C3_StrictRun /\ hist.phase = "drained"

(* ------------------------------------------------------------------ *)
(* C4  Terminator.  In either mode and for either scanner, a call with *)
(* "--" at the cursor returns -1 and moves the cursor past it, leaving *)
(* argv as it is; every optparse_arg call returns the token at the     *)
(* cursor, whatever it looks like, and steps over it.                  *)
(* ------------------------------------------------------------------ *)
C4_Terminator ==
  [][ /\ (lastop' \in Scanners /\ Cur # NULL /\ mem[Cur] = DashDash) =>
           /\ ret' = -1
           /\ tok' = Cur
           /\ parser'.optind = parser.optind + 1
           /\ parser'.argv = parser.argv
      /\ (lastop' = "optparse_arg") =>
           /\ ret' = Cur
           /\ parser'.argv = parser.argv
           /\ parser'.optind = IF Cur = NULL THEN parser.optind ELSE parser.optind + 1
    ]_vars

(* optparse_arg has just returned an option-like token that follows "--". *)
C4_Witness ==
  /\ lastop = "optparse_arg"
  /\ parser.optind >= 3
  /\ mem[parser.argv[parser.optind - 2]] = DashDash
  /\ ret = parser.argv[parser.optind - 1]
  /\ IsCluster(ret)

(* ------------------------------------------------------------------ *)
(* C5  Idempotent draining.                                            *)
(* ------------------------------------------------------------------ *)
C5_Unchanged ==
  /\ ret' = -1
  /\ parser'.optind = parser.optind
  /\ parser'.subopt = parser.subopt
  /\ parser'.argv = parser.argv

(* C5 as stated: once a scanner has returned -1, the next call of that
   scanner returns -1 and leaves cursor, subopt and argv unchanged, also when
   the -1 was caused by "--". *)
C5_DoneIsFinal ==
  [][ (lastop \in Scanners /\ ret = -1 /\ lastop' = lastop) => C5_Unchanged ]_vars

(* C5 as amended: the same, for a -1 that did not consume a "--" (the array
   is exhausted, a non-option stopped a strict parse, or only non-options
   remain in a permuting parse). *)
C5_DoneIsFinalUnlessTerminator ==
  [][ (lastop \in Scanners /\ ret = -1 /\ tok = NULL /\ lastop' = lastop)
        => C5_Unchanged ]_vars

(* A permuting parse that consumed something and then returned -1 with
   non-options left at the cursor. *)
C5_Witness ==
  /\ lastop \in Scanners
  /\ ret = -1
  /\ tok = NULL
  /\ parser.permute
  /\ parser.optind > 1
  /\ Cur # NULL

(* ------------------------------------------------------------------ *)
(* C6  errmsg is empty after every scanner call that did not return    *)
(* '?'.                                                                *)
(* ------------------------------------------------------------------ *)
C6_ErrmsgOnlyOnError ==
  (lastop \in Scanners /\ ret # QMARK) => parser.errmsg = <<>>

(* ------------------------------------------------------------------ *)
(* Vocabulary of the claims about option values and long names         *)
(* ------------------------------------------------------------------ *)
(* The flag character the short scanner reads next in the token at the
   cursor, when that character lies within the token. *)
FlagInRange == IsCluster(Cur) /\ parser.subopt + 1 < Len(mem[Cur])
FlagChar == Ch(mem[Cur], parser.subopt + 1)

(* The characters after that flag character in the same token, as a pointer
   into the token; NullPtr when the flag character ends the token. *)
InlineRest ==
  IF parser.subopt + 2 < Len(mem[Cur])
  THEN [id |-> Cur, off |-> parser.subopt + 2]
  ELSE NullPtr

(* The token after the one at the cursor. *)
Following == parser.argv[parser.optind + 1]

(* The text of a long flag token after its "--". *)
LongText(t) == SubSeq(mem[t], 3, Len(mem[t]))

(* Position in LongText(t) of its first '=', 0 when it has none. *)
FirstEq(t) ==
  LET eqs == {i \in 1..Len(LongText(t)) : LongText(t)[i] = EQ}
  IN  IF eqs = {} THEN 0 ELSE CHOOSE i \in eqs : \A j \in eqs : i <= j

(* The name of a long flag token: its text up to the end or the first '='. *)
LongName(t) ==
  IF FirstEq(t) = 0 THEN LongText(t) ELSE SubSeq(LongText(t), 1, FirstEq(t) - 1)

(* The text after the first '=' as a pointer into the token. *)
LongValue(t) ==
  IF FirstEq(t) = 0 THEN NullPtr ELSE [id |-> t, off |-> 2 + FirstEq(t)]

(* Indices (from 0) of the table entries whose name is exactly name. *)
Named(longopts, name) ==
  {i \in 0..(LongoptsLen(longopts) - 1) : longopts[i + 1].longname = name}

Least(S) == CHOOSE i \in S : \A j \in S : i <= j

(* ------------------------------------------------------------------ *)
(* C7  Optional value asymmetry.  For a flag declared with an optional *)
(* value at the cursor (a short flag through optparse or through the   *)
(* fallback of optparse_long, or a long flag), the call returns the    *)
(* flag, the value is the inline text (the characters after the short  *)
(* flag in the same token, the text after '=' of a long flag) and is   *)
(* absent when there is none; the cursor advances by exactly one       *)
(* token, argv is unchanged, and the following token is what           *)
(* optparse_arg returns next.                                          *)
(* ------------------------------------------------------------------ *)
C7_Expected(res, code, value) ==
  /\ res.r = code
  /\ res.o.optarg = value
  /\ res.o.optind = parser.optind + 1
  /\ res.o.argv = parser.argv
  /\ optparse_arg(res.o).r = Following

C7_OptionalInlineOnly ==
  (~ub /\ Cur # NULL) =>
    /\ FlagInRange =>
         /\ \A optstring \in OptStrings : \A junk \in Junk :
              optparse__argtype(optstring, FlagChar) = OPTPARSE_OPTIONAL =>
                C7_Expected(optparse(parser, optstring, LI_UNSET, junk),
                            FlagChar, InlineRest)
         /\ \A longopts \in LongTables : \A slot \in BOOLEAN : \A junk \in Junk :
              optparse__argtype(optparse__from_long(longopts), FlagChar)
                  = OPTPARSE_OPTIONAL =>
                C7_Expected(optparse_long(parser, longopts, slot, LI_UNSET, junk),
                            FlagChar, InlineRest)
    /\ IsLongFlag(Cur) =>
         \A longopts \in LongTables : \A slot \in BOOLEAN :
           LET hits == Named(longopts, LongName(Cur))
           IN  (hits # {} /\ longopts[Least(hits) + 1].argtype = OPTPARSE_OPTIONAL) =>
                 C7_Expected(optparse_long(parser, longopts, slot, LI_UNSET, NUL),
                             longopts[Least(hits) + 1].shortname, LongValue(Cur))

(* optparse_long has just returned the optional flag "--o", standing alone at
   the cursor, without a value, and the token that followed it is now at the
   cursor. *)
C7_Witness ==
  /\ lastop = "optparse_long"
  /\ ret = ch_o
  /\ parser.optarg = NullPtr
  /\ tok # NULL
  /\ mem[tok] = <<DASH, DASH, ch_o>>
  /\ parser.argv[parser.optind - 1] = tok
  /\ Cur = tok + 1

(* ------------------------------------------------------------------ *)
(* C8  Required value.  For a short flag declared with a required      *)
(* value at the cursor (alone, or inside a cluster): characters that   *)
(* follow it in the token are the value and the cursor advances by     *)
(* one; otherwise the whole following token is the value, whatever it  *)
(* looks like, and the cursor advances by two; only when there is no   *)
(* following token the call returns '?' with "option requires an       *)
(* argument".                                                          *)
(* ------------------------------------------------------------------ *)
C8_Expected(res) ==
  /\ res.o.argv = parser.argv
  /\ res.o.subopt = 0
  /\ IF InlineRest # NullPtr
     THEN /\ res.r = FlagChar
          /\ res.o.optarg = InlineRest
          /\ res.o.optind = parser.optind + 1
     ELSE IF Following # NULL
     THEN /\ res.r = FlagChar
          /\ res.o.optarg = [id |-> Following, off |-> 0]
          /\ res.o.optind = parser.optind + 2
     ELSE /\ res.r = QMARK
          /\ res.o.optarg = NullPtr
          /\ res.o.optind = parser.optind + 1
          /\ res.o.errmsg = OPTPARSE_MSG_MISSING \o ErrSep \o <<FlagChar, QUOTE>>

C8_RequiredValue ==
  (~ub /\ Cur # NULL /\ FlagInRange) =>
    /\ \A optstring \in OptStrings : \A junk \in Junk :
         optparse__argtype(optstring, FlagChar) = OPTPARSE_REQUIRED =>
           C8_Expected(optparse(parser, optstring, LI_UNSET, junk))
    /\ \A longopts \in LongTables : \A slot \in BOOLEAN : \A junk \in Junk :
         optparse__argtype(optparse__from_long(longopts), FlagChar)
             = OPTPARSE_REQUIRED =>
           C8_Expected(optparse_long(parser, longopts, slot, LI_UNSET, junk))

(* The flag "-r" has just taken the following token "--" as its value. *)
C8_Witness ==
  /\ lastop \in Scanners
  /\ ret = ch_r
  /\ tok # NULL
  /\ mem[tok] = <<DASH, ch_r>>
  /\ parser.optarg.id # NULL
  /\ parser.optarg.off = 0
  /\ mem[parser.optarg.id] = DashDash

(* ------------------------------------------------------------------ *)
(* C9  Cluster completeness.  For a token at the cursor made of one    *)
(* dash and n flag characters that all take no argument, entered with  *)
(* cluster offset 0, the k-th of n successive optparse calls returns   *)
(* the k-th character; after it, for k < n, the cursor is still on     *)
(* the token and the cluster offset is k, and for k = n the cluster    *)
(* offset is 0 and the cursor has moved to the next token.             *)
(* ------------------------------------------------------------------ *)
RECURSIVE C9_Calls(_, _, _)
C9_Calls(options, optstring, k) ==
  IF k = 0 THEN Result(options, 0, NULL, LI_UNSET, FALSE)
  ELSE optparse(C9_Calls(options, optstring, k - 1).o, optstring, LI_UNSET, NUL)

C9_ClusterCompleteness ==
  (~ub /\ IsCluster(Cur) /\ parser.subopt = 0) =>
    \A optstring \in OptStrings :
      LET n == Len(mem[Cur]) - 1
      IN  (\A i \in 1..n :
             optparse__argtype(optstring, mem[Cur][i + 1]) = OPTPARSE_NONE) =>
            \A k \in 1..n :
              LET res == C9_Calls(parser, optstring, k)
              IN  /\ res.r = mem[Cur][k + 1]
                  /\ res.tok = Cur
                  /\ ~res.ub
                  /\ res.o.argv = parser.argv
                  /\ res.o.optind = IF k < n THEN parser.optind ELSE parser.optind + 1
                  /\ res.o.subopt = IF k < n THEN k ELSE 0

(* optparse has just returned the last of the four flags of "-aarx" and
   moved past the token. *)
C9_Witness ==
  /\ lastop = "optparse"
  /\ ret = ch_x
  /\ tok # NULL
  /\ mem[tok] = <<DASH, ch_a, ch_a, ch_r, ch_x>>
  /\ parser.subopt = 0
  /\ parser.argv[parser.optind - 1] = tok

(* ------------------------------------------------------------------ *)
(* C10  Long exact match.  For a long flag at the cursor,              *)
(* optparse_long takes the first table entry whose name equals the     *)
(* token's text between "--" and its end or first '='; when no entry   *)
(* has exactly that name (also when a name is a proper prefix of the   *)
(* text, or the text a proper prefix of a name) it returns '?' with    *)
(* "invalid option" and the text.                                      *)
(* ------------------------------------------------------------------ *)
C10_LongExactMatch ==
  (~ub /\ IsLongFlag(Cur)) =>
    \A longopts \in LongTables : \A slot \in BOOLEAN :
      LET hits == Named(longopts, LongName(Cur))
          res  == optparse_long(parser, longopts, slot, LI_UNSET, NUL)
      IN  /\ res.tok = Cur
          /\ res.o.optind >= parser.optind + 1
          /\ IF hits = {}
             THEN /\ res.r = QMARK
                  /\ res.o.errmsg =
                       OPTPARSE_MSG_INVALID \o ErrSep \o LongText(Cur) \o <<QUOTE>>
                  /\ res.o.optopt = 0
                  /\ res.li = LI_UNSET
             ELSE /\ res.o.optopt = longopts[Least(hits) + 1].shortname
                  /\ res.r \in {longopts[Least(hits) + 1].shortname, QMARK}
                  /\ ~IsPrefix(OPTPARSE_MSG_INVALID, res.o.errmsg)
                  /\ res.li = IF slot THEN Least(hits) ELSE LI_UNSET

(* "--r" has just been rejected: no entry is named "r", although "r" is a
   proper prefix of the entry name "ro". *)
C10_Witness ==
  /\ lastop = "optparse_long"
  /\ ret = QMARK
  /\ tok # NULL
  /\ mem[tok] = <<DASH, DASH, ch_r>>
  /\ IsPrefix(OPTPARSE_MSG_INVALID, parser.errmsg)

(* ------------------------------------------------------------------ *)
(* C11  Long-form error kinds.  For a long flag at the cursor whose    *)
(* name selects a table entry: an entry that takes no argument, given  *)
(* an inline "=value", yields '?' with "option takes no arguments"     *)
(* and the entry's name; an entry that requires an argument, given no  *)
(* inline value, takes the following token as the value when there is  *)
(* one and otherwise yields '?' with "option requires an argument".    *)
(* A name that selects no entry yields '?' with "invalid option" and   *)
(* the whole text after the dashes.  In the three error cases the      *)
(* cursor has advanced by one and optarg is NULL.                      *)
(* ------------------------------------------------------------------ *)
C11_Error(res, msg, data) ==
  /\ res.r = QMARK
  /\ res.o.errmsg = msg \o ErrSep \o data \o <<QUOTE>>
  /\ res.o.optind = parser.optind + 1
  /\ res.o.optarg = NullPtr
  /\ res.o.argv = parser.argv

C11_Case(res, longopts) ==
  LET hits == Named(longopts, LongName(Cur))
      e    == longopts[Least(hits) + 1]
  IN  IF hits = {}
      THEN C11_Error(res, OPTPARSE_MSG_INVALID, LongText(Cur))
      ELSE /\ (e.argtype = OPTPARSE_NONE /\ FirstEq(Cur) # 0) =>
                C11_Error(res, OPTPARSE_MSG_TOOMANY, e.longname)
           /\ (e.argtype = OPTPARSE_REQUIRED /\ FirstEq(Cur) = 0) =>
                IF Following # NULL
                THEN /\ res.r = e.shortname
                     /\ res.o.optarg = [id |-> Following, off |-> 0]
                     /\ res.o.optind = parser.optind + 2
                     /\ res.o.errmsg = <<>>
                     /\ res.o.argv = parser.argv
                ELSE C11_Error(res, OPTPARSE_MSG_MISSING, e.longname)

C11_LongErrorKinds ==
  (~ub /\ IsLongFlag(Cur)) =>
    \A longopts \in LongTables : \A slot \in BOOLEAN :
      C11_Case(optparse_long(parser, longopts, slot, LI_UNSET, NUL), longopts)

(* "--o=x" has just been rejected by the entry "o" that takes no argument. *)
C11_Witness ==
  /\ lastop = "optparse_long"
  /\ ret = QMARK
  /\ tok # NULL
  /\ mem[tok] = <<DASH, DASH, ch_o, EQ, ch_x>>
  /\ parser.errmsg = OPTPARSE_MSG_TOOMANY \o ErrSep \o <<ch_o, QUOTE>>
  /\ parser.optarg = NullPtr
  /\ parser.argv[parser.optind - 1] = tok

(* ------------------------------------------------------------------ *)
(* C12  Error recovery.                                                *)
(* ------------------------------------------------------------------ *)
C12_ErrorStep == lastop' \in Scanners /\ ret' = QMARK /\ ~ub'

(* C12 as stated: every optparse or optparse_long call that returns '?'
   leaves the cursor exactly one greater than before the call, the cluster
   offset 0, optarg NULL and errmsg non-empty. *)

C12_ErrorRecovery ==
  [][ C12_ErrorStep =>
        /\ parser'.optind = parser.optind + 1
        /\ parser'.subopt = 0
        /\ parser'.optarg = NullPtr
        /\ parser'.errmsg # <<>> ]_vars

(* C12 as amended: every optparse or optparse_long call that returns '?'
   leaves the cursor exactly one greater than before the call, optarg NULL
   and errmsg non-empty; the cluster offset is 0 when the error comes from
   the short scan (optparse, or optparse_long on a short-style token) and
   is left as it was when it comes from a long flag. *)
C12_ErrorRecoveryShortResets ==
  [][ C12_ErrorStep =>
        /\ parser'.optind = parser.optind + 1
        /\ parser'.optarg = NullPtr
        /\ parser'.errmsg # <<>>
        /\ parser'.subopt = IF lastop' = "optparse_long" /\ IsLongFlag(tok')
                            THEN parser.subopt ELSE 0 ]_vars

(* The third character of "-aarx" has just been rejected: the cluster offset
   is back to 0 and the cursor is past the token, its last character unread. *)
C12_Witness ==
  /\ lastop = "optparse_long"
  /\ ret = QMARK
  /\ tok # NULL
  /\ mem[tok] = <<DASH, ch_a, ch_a, ch_r, ch_x>>
  /\ parser.optopt = ch_r
  /\ parser.subopt = 0
  /\ parser.argv[parser.optind - 1] = tok

(* ------------------------------------------------------------------ *)
(* C13  Fallback match index.                                          *)
(* ------------------------------------------------------------------ *)
(* Indices (from 0) of the table entries whose short equivalent is c. *)
ShortNamed(longopts, c) ==
  {i \in 0..(LongoptsLen(longopts) - 1) : longopts[i + 1].shortname = c}

(* C13 as stated: optparse_long, called with an output slot on a
   short-style token, leaves in the slot the index of the first entry whose
   short equivalent is the character returned, and -1 whenever the short
   scan reported an error (invalid option or missing argument). *)
C13_NoIndexOnError ==
  (~ub /\ FlagInRange) =>
    \A longopts \in LongTables : \A junk \in Junk :
      LET res == optparse_long(parser, longopts, TRUE, LI_UNSET, junk)
      IN  res.li = IF res.r = QMARK \/ ShortNamed(longopts, res.r) = {}
                   THEN -1 ELSE Least(ShortNamed(longopts, res.r))

(* C13 as amended: the slot holds the index of the first entry whose short
   equivalent is the character scanned (optopt), also when the call returns
   '?' because that entry's required argument is missing; it holds -1 when
   no entry has that short equivalent, which is the case of the invalid
   option error. *)
C13_IndexFromOptopt ==
  (~ub /\ FlagInRange) =>
    \A longopts \in LongTables : \A junk \in Junk :
      LET res  == optparse_long(parser, longopts, TRUE, LI_UNSET, junk)
          hits == ShortNamed(longopts, FlagChar)
          type == optparse__argtype(optparse__from_long(longopts), FlagChar)
      IN  /\ res.o.optopt = FlagChar
          /\ res.li = IF hits = {} THEN -1 ELSE Least(hits)
          /\ type = -1 => (res.r = QMARK /\ res.li = -1)
          /\ (type = OPTPARSE_REQUIRED /\ res.r = QMARK) =>
               (hits # {} /\ res.li = Least(hits))

(* "-r" stood last, its required argument is missing, and the slot holds
   the index of the entry of 'r'. *)
C13_Witness ==
  /\ lastop = "optparse_long"
  /\ ret = QMARK
  /\ tok # NULL
  /\ mem[tok] = <<DASH, ch_r>>
  /\ IsPrefix(OPTPARSE_MSG_MISSING, parser.errmsg)
  /\ longindex = 0

(* ------------------------------------------------------------------ *)
(* C14  Bounded error text.  After every call that returns '?',        *)
(* errmsg is one of the three reasons, then " -- '", then the          *)
(* offending name (the flag character, the text of an unmatched long   *)
(* flag, the name of the matched entry), then "'"; it is never longer  *)
(* than 63 characters, and when the name does not fit only characters  *)
(* at the end of the name are missing.                                 *)
(* ------------------------------------------------------------------ *)
Reasons == {OPTPARSE_MSG_INVALID, OPTPARSE_MSG_MISSING, OPTPARSE_MSG_TOOMANY}

(* What the last call complained about. *)
Offender(reason) ==
  IF lastop = "optparse_long" /\ IsLongFlag(tok)
  THEN IF reason = OPTPARSE_MSG_INVALID THEN LongText(tok) ELSE LongName(tok)
  ELSE <<parser.optopt>>

(* Room left for the name after the reason, the separator and the quote. *)
NameRoom(reason) == (ErrmsgSize - 2) - Len(reason) - Len(ErrSep)

C14_BoundedErrorText ==
  (lastop \in Scanners /\ ret = QMARK /\ ~ub) =>
    /\ Len(parser.errmsg) <= ErrmsgSize - 1
    /\ \E reason \in Reasons :
         parser.errmsg =
           reason \o ErrSep \o Take(Offender(reason), NameRoom(reason)) \o <<QUOTE>>

(* A required argument is missing for a long flag whose name does not fit:
   the message fills the buffer and only the end of the name is cut. *)
C14_Witness ==
  /\ lastop = "optparse_long"
  /\ ret = QMARK
  /\ tok # NULL
  /\ IsLongFlag(tok)
  /\ IsPrefix(OPTPARSE_MSG_MISSING, parser.errmsg)
  /\ Len(LongName(tok)) > NameRoom(OPTPARSE_MSG_MISSING)
  /\ Len(parser.errmsg) = ErrmsgSize - 1
  /\ parser.errmsg[ErrmsgSize - 1] = QUOTE

(* ------------------------------------------------------------------ *)
(* C15  Re-initialization.  optparse_init, called in any reachable     *)
(* state, leaves argv as it is and sets optind to 1 when argv[0] is    *)
(* present and to 0 otherwise, permute to true, subopt and optopt to   *)
(* 0, optarg to NULL and errmsg to empty: the struct is the one a      *)
(* fresh struct initialised over the same array would be, so that      *)
(* every later call returns what it would return on the fresh one.     *)
(* ------------------------------------------------------------------ *)
C15_Fresh == optparse_init(Uninit, parser.argv)

C15_Reinit ==
  [][ lastop' = "optparse_init" =>
        /\ parser' = [argv    |-> parser.argv,
                      permute |-> TRUE,
                      optind  |-> IF parser.argv[0] # NULL THEN 1 ELSE 0,
                      subopt  |-> 0,
                      optopt  |-> 0,
                      optarg  |-> NullPtr,
                      errmsg  |-> <<>>]
        /\ parser' = C15_Fresh
        /\ mem' = mem
        /\ \A optstring \in OptStrings :
             optparse(parser', optstring, LI_UNSET, NUL)
               = optparse(C15_Fresh, optstring, LI_UNSET, NUL)
        /\ \A longopts \in LongTables : \A slot \in BOOLEAN :
             optparse_long(parser', longopts, slot, LI_UNSET, NUL)
               = optparse_long(C15_Fresh, longopts, slot, LI_UNSET, NUL)
        /\ optparse_arg(parser') = optparse_arg(C15_Fresh) ]_vars

(* The struct has just been initialised again over an array that an earlier
   parse has permuted. *)
C15_Witness ==
  /\ lastop = "optparse_init"
  /\ \E i \in DOMAIN parser.argv : parser.argv[i] \notin {i, NULL}
  /\ parser.optind = 1
  /\ parser.subopt = 0

(* ------------------------------------------------------------------ *)
(* C16  Positional extractor and sub-command stepping.  optparse_arg   *)
(* returns the token at the cursor and advances the cursor by one, or  *)
(* returns NULL and leaves the cursor where it is at the end of the    *)
(* array; it always sets the cluster offset to 0 and never changes     *)
(* argv.  After a strict parse has stopped at a non-option,            *)
(* optparse_arg returns that token, and the scanner call after it,     *)
(* whatever its option specification, works on the tokens behind it.   *)
(* ------------------------------------------------------------------ *)
C16_ArgStep ==
  /\ ret' = Cur
  /\ parser'.optind = IF Cur = NULL THEN parser.optind ELSE parser.optind + 1
  /\ parser'.subopt = 0
  /\ parser'.argv = parser.argv
  /\ mem' = mem

C16_StepOver ==
  [][ /\ lastop' = "optparse_arg" => C16_ArgStep
      /\ (lastop \in Scanners /\ ~parser.permute /\ ret = -1 /\ tok = NULL
            /\ IsNonOption(Cur) /\ lastop' = "optparse_arg") =>
           (ret' = Cur /\ parser'.argv[parser'.optind] = Following)
      /\ (lastop = "optparse_arg" /\ ret # NULL /\ lastop' \in Scanners) =>
           /\ parser.argv[parser.optind - 1] = ret
           /\ tok' # ret
           /\ tok' # NULL =>
                \E i \in DOMAIN parser.argv : i >= parser.optind /\ parser.argv[i] = tok'
           /\ (~parser.permute /\ tok' # NULL) => tok' = Cur
    ]_vars

(* A strict scanner call has just parsed the second token although the first
   one is a non-option: optparse_arg has stepped over it. *)
C16_Witness ==
  /\ lastop \in Scanners
  /\ ~parser.permute
  /\ tok # NULL
  /\ ret # -1
  /\ IsNonOption(parser.argv[1])
  /\ parser.argv[2] = tok

(* ------------------------------------------------------------------ *)
(* C17  Cursor bound.  In every reachable state the cursor is at most  *)
(* the index of the NULL that ends argv and at least its value after   *)
(* optparse_init, and no call made in that state reads argv beyond     *)
(* that NULL.                                                          *)
(* ------------------------------------------------------------------ *)
(* Index of the terminating NULL of argv. *)
Terminator == CHOOSE i \in DOMAIN parser.argv :
                /\ parser.argv[i] = NULL
                /\ \A j \in 0..(i - 1) : parser.argv[j] # NULL

C17_CursorBound ==
  /\ parser.optind >= (IF parser.argv[0] # NULL THEN 1 ELSE 0)
  /\ parser.optind <= Terminator
  /\ ~ub =>
       /\ \A optstring \in OptStrings : \A junk \in JunkFor(parser) :
            optparse_maxread(parser, optstring, junk) <= Terminator
       /\ \A longopts \in LongTables : \A junk \in JunkFor(parser) :
            optparse_long_maxread(parser, longopts, junk) <= Terminator

(* A required flag has just taken the last token as its value: the cursor
   stands on the terminating NULL, two positions further than before. *)
C17_Witness ==
  /\ lastop \in Scanners
  /\ parser.optind = Terminator
  /\ parser.optind >= 3
  /\ parser.optarg.id # NULL
  /\ parser.optarg.off = 0
  /\ parser.argv[parser.optind - 1] = parser.optarg.id

(* ------------------------------------------------------------------ *)
(* C18  Reentrancy.  Two structs over two distinct arrays: every       *)
(* operation on one struct returns, and leaves in that struct and its  *)
(* array, what it would with the other struct and array absent, and    *)
(* leaves the other struct, its last result and its array unchanged.   *)
(* By induction every interleaving gives each struct the results,      *)
(* fields and token order of its own operations run alone.             *)
(* ------------------------------------------------------------------ *)
(* Addresses of the cells of the first array, and of the second. *)
OwnCells == {j \in DOMAIN parser.argv : j < peer.base}
PeerCells == {j \in DOMAIN parser.argv : j >= peer.base}

(* A struct whose array is cut down to the cells in cells. *)
Alone(options, cells) ==
  [options EXCEPT !.argv = [i \in cells |-> options.argv[i]]]

(* together, the result of a call in the memory that holds both arrays, is
   alone, the result of the call on the array alone, and every other cell is
   as it was in before. *)
C18_Same(together, alone, before) ==
  /\ together.r = alone.r
  /\ [together.o EXCEPT !.argv = alone.o.argv] = alone.o
  /\ \A i \in DOMAIN together.o.argv :
       together.o.argv[i] = IF i \in DOMAIN alone.o.argv
                            THEN alone.o.argv[i] ELSE before.argv[i]

C18_Ops(options, cells) ==
  LET solo == Alone(options, cells)
  IN  /\ \A optstring \in OptStrings : \A junk \in JunkFor(options) :
           LET t == optparse(options, optstring, LI_UNSET, junk)
               a == optparse(solo, optstring, LI_UNSET, junk)
           IN  C18_Same(t, a, options) /\ t.tok = a.tok /\ t.ub = a.ub
      /\ \A longopts \in LongTables : \A slot \in BOOLEAN : \A junk \in JunkFor(options) :
           LET t == optparse_long(options, longopts, slot, LI_UNSET, junk)
               a == optparse_long(solo, longopts, slot, LI_UNSET, junk)
           IN  C18_Same(t, a, options) /\ t.tok = a.tok /\ t.li = a.li /\ t.ub = a.ub
      /\ C18_Same(optparse_arg(options), optparse_arg(solo), options)
      /\ C18_Same([o |-> optparse_init(options, options.argv), r |-> 0],
                  [o |-> optparse_init(solo, solo.argv), r |-> 0], options)

C18_Independent ==
  peer.base # NULL =>
    /\ ~ub => C18_Ops(parser, OwnCells)
    /\ ~peer.ub => C18_Ops(PeerStruct, {j - peer.base : j \in PeerCells})

C18_Frame ==
  \/ /\ peer' = peer
     /\ \A j \in PeerCells : parser'.argv[j] = parser.argv[j]
  \/ /\ [parser' EXCEPT !.argv = parser.argv] = parser
     /\ \A j \in OwnCells : parser'.argv[j] = parser.argv[j]
     /\ UNCHANGED <<mem, longindex, ret, lastop, tok, ub>>

C18_Reentrancy == [](C18_Independent) /\ [][C18_Frame]_vars

(* Both parses have run: the first struct is in the middle of a cluster of
   its array while the second, after an error, has permuted its own array. *)
C18_Witness ==
  /\ peer.base # NULL
  /\ lastop \in Scanners
  /\ parser.subopt = 1
  /\ peer.r = QMARK
  /\ parser.argv[peer.base + 1] # peer.base
  /\ parser.argv[peer.base + 1] # NULL

(* ------------------------------------------------------------------ *)
(* C19  Termination of the caller's loop.  Calling optparse, or        *)
(* optparse_long, again and again eventually returns -1, for every     *)
(* command line, option specification and permute mode; every call     *)
(* that returns something else strictly increases the pair (cursor,    *)
(* cluster offset) in lexicographic order; and the recursion over      *)
(* skipped non-options reads argv no further than its terminating      *)
(* NULL.                                                               *)
(* ------------------------------------------------------------------ *)
C19_Progress ==
  (lastop' \in Scanners /\ ret' # -1) =>
    \/ parser'.optind > parser.optind
    \/ parser'.optind = parser.optind /\ parser'.subopt > parser.subopt

C19_RecursionEnds ==
  ~ub =>
    /\ \A optstring \in OptStrings : \A junk \in JunkFor(parser) :
         optparse_maxread(parser, optstring, junk) <= Terminator
    /\ \A longopts \in LongTables : \A junk \in JunkFor(parser) :
         optparse_long_maxread(parser, longopts, junk) <= Terminator

C19_Termination ==
  /\ <>(ret = -1)
  /\ [][C19_Progress]_vars
  /\ [](C19_RecursionEnds)

(* A loop over a command line of three tokens has ended: the scanner has
   returned -1 with the cursor behind at least two of them. *)
C19_Witness ==
  /\ lastop \in Scanners
  /\ ret = -1
  /\ parser.optind >= 3
  /\ DOMAIN mem = 0..3

(* ------------------------------------------------------------------ *)
(* C20  What optparse takes for a non-option.  As stated: the token    *)
(* at the cursor is a non-option only when it does not start with a    *)
(* dash or is "-"; every other token that is not "--", a token like    *)
(* --foo included, is scanned as a short-option cluster, is never      *)
(* permuted and never stops the parse.                                 *)
(* ------------------------------------------------------------------ *)
C20_Scanned ==
  /\ tok' = Cur
  /\ ret' # -1
  /\ parser'.argv = parser.argv

C20_Kept ==
  /\ tok' # Cur
  /\ \E k \in DOMAIN parser'.argv : k >= parser'.optind /\ parser'.argv[k] = Cur
  /\ ~parser.permute => ret' = -1 /\ parser'.optind = parser.optind

C20_DashStep ==
  (lastop' = "optparse" /\ ~ub' /\ Cur # NULL) =>
    /\ IsNonOption(Cur) => C20_Kept
    /\ (~IsNonOption(Cur) /\ mem[Cur] # DashDash) => C20_Scanned

C20_DashMeansCluster == [][C20_DashStep]_vars

(* C20, as the code has it.  optparse takes the token at the cursor    *)
(* for a non-option when it does not start with a dash, is "-", or     *)
(* starts with two dashes followed by more characters: the call does   *)
(* not parse it, leaves it at or behind the cursor, and with permute   *)
(* off returns -1 without moving the cursor.  A token of one dash      *)
(* followed by a character that is no dash is scanned as a cluster:    *)
(* the call parses it, does not return -1 and permutes nothing.        *)
C20_ClassStep ==
  (lastop' = "optparse" /\ ~ub' /\ Cur # NULL) =>
    /\ (IsNonOption(Cur) \/ IsLongFlag(Cur)) => C20_Kept
    /\ IsCluster(Cur) => C20_Scanned

C20_NonOptionClasses == [][C20_ClassStep]_vars

(* optparse, with permute on, has skipped a token of two dashes and a name
   and parsed the cluster after it; the skipped token now follows it. *)
C20_Witness ==
  /\ lastop = "optparse"
  /\ ~ub
  /\ tok = 2
  /\ IsCluster(2)
  /\ IsLongFlag(1)
  /\ parser.optind = 2
  /\ parser.argv[1] = 2
  /\ parser.argv[2] = 1

(* ------------------------------------------------------------------ *)
(* C21  Permutation partition.  At every point argv is a rearrangement *)
(* of the original tokens, with token 0 and the terminating NULL in    *)
(* place.  With permute on, after each scanner call of a parse (no     *)
(* other call since optparse_init) every token below the cursor, past  *)
(* token 0, has been consumed as an option, an option value or "--";   *)
(* and the non-options a call skipped sit at the cursor onward in the  *)
(* order they had before the call.                                     *)
(* ------------------------------------------------------------------ *)
C21_Last == Cardinality(DOMAIN mem) - 1

C21_Rearranged ==
  /\ DOMAIN parser.argv = 0..(C21_Last + 1)
  /\ parser.argv[C21_Last + 1] = NULL
  /\ C21_Last >= 0 => parser.argv[0] = 0
  /\ {parser.argv[k] : k \in 0..C21_Last} = DOMAIN mem

C21_ConsumedBelow ==
  (lastop \in Scanners /\ hist.mode /\ hist.phase \in {"parse", "drain"}) =>
    \A k \in 1..(parser.optind - 1) : parser.argv[k] \in hist.used

(* Index, before the call, of the token the call parsed or terminated on;
   of the terminating NULL when it parsed none. *)
C21_Reached ==
  IF tok' = NULL THEN Terminator
  ELSE CHOOSE k \in DOMAIN parser.argv : parser.argv[k] = tok'

C21_SkippedStay ==
  (lastop' \in Scanners /\ parser.permute /\ ~ub') =>
    /\ C21_Reached >= parser.optind
    /\ \A k \in parser.optind..(C21_Reached - 1) :
         /\ ~IsCluster(parser.argv[k])
         /\ parser'.argv[parser'.optind + (k - parser.optind)] = parser.argv[k]

C21_PermutationPartition ==
  /\ [](C21_Rearranged)
  /\ [](C21_ConsumedBelow)
  /\ [][C21_SkippedStay]_vars

(* The first call of a permuting parse has skipped two non-options and parsed
   the option behind them: the option is below the cursor and the two
   non-options follow in their order. *)
C21_Witness ==
  /\ hist.mode
  /\ hist.phase = "parse"
  /\ hist.opts = <<3>>
  /\ lastop \in Scanners
  /\ parser.optind = 2
  /\ parser.argv[1] = 3
  /\ parser.argv[2] = 1
  /\ parser.argv[3] = 2
  /\ IsNonOption(1)
  /\ IsNonOption(2)

(* ------------------------------------------------------------------ *)
(* C22  Cluster offset safety.  For every sequence of optparse,        *)
(* optparse_long, optparse_arg and optparse_init calls on one struct,  *)
(* with permute toggled at will, each read of the character at         *)
(* subopt + 1 of the token being scanned lies within that token: no    *)
(* call reads past the terminator of a token.                          *)
(* ------------------------------------------------------------------ *)
C22_OffsetWithinToken == ~ub

(* ------------------------------------------------------------------ *)
(* C23  Long-only options.  A table entry whose short equivalent is    *)
(* outside 1..126 contributes nothing to the synthesized short         *)
(* specification; no optparse_long call on a short-style token returns *)
(* its value or reports its index, and a cluster character that is the *)
(* short equivalent of no other entry is reported as an invalid        *)
(* option; the entry is selected only by a long flag with its name,    *)
(* and then the call, unless it reports an error, returns the entry's  *)
(* short equivalent itself and reports its index.                      *)
(* ------------------------------------------------------------------ *)
C23_IsLongOnly(e) == e.shortname \notin 1..126

C23_Short(e) == ~C23_IsLongOnly(e)

C23_LongOnlyAt(longopts) ==
  {i \in 0..(LongoptsLen(longopts) - 1) : C23_IsLongOnly(longopts[i + 1])}

C23_Case(res, longopts) ==
  LET only   == C23_LongOnlyAt(longopts)
      shorts == {longopts[i + 1].shortname :
                   i \in (0..(LongoptsLen(longopts) - 1)) \ only}
  IN  /\ optparse__from_long(longopts) =
           optparse__from_long(SelectSeq(longopts, C23_Short))
      /\ IsCluster(res.tok) =>
           /\ res.li \notin only
           /\ \A i \in only : res.r # longopts[i + 1].shortname
           /\ res.o.optopt \notin shorts =>
                /\ res.r = QMARK
                /\ res.li = -1
                /\ res.o.errmsg =
                     OPTPARSE_MSG_INVALID \o ErrSep \o Str1(res.o.optopt) \o <<QUOTE>>
      /\ \A i \in only :
           (res.li = i \/ res.r = longopts[i + 1].shortname) =>
             /\ IsLongFlag(res.tok)
             /\ Named(longopts, LongName(res.tok)) \cap only # {}
      /\ (/\ IsLongFlag(res.tok)
          /\ Named(longopts, LongName(res.tok)) # {}
          /\ Least(Named(longopts, LongName(res.tok))) \in only) =>
           /\ res.li = Least(Named(longopts, LongName(res.tok)))
           /\ res.r \in {longopts[res.li + 1].shortname, QMARK}
           /\ res.r = QMARK => res.o.errmsg # <<>>

C23_LongOnlyOptions ==
  ~ub =>
    \A longopts \in LongTables : \A junk \in JunkFor(parser) :
      LET res == optparse_long(parser, longopts, TRUE, LI_UNSET, junk)
      IN  ~res.ub => C23_Case(res, longopts)

(* "--o" has selected the entry {"o", 256, OPTPARSE_NONE}, the third of its
   table: the call returned 256 and reported index 2. *)
C23_Witness ==
  /\ lastop = "optparse_long"
  /\ ret = LongOnly
  /\ longindex = 2
  /\ tok # NULL
  /\ mem[tok] = <<DASH, DASH, ch_o>>
  /\ parser.optopt = LongOnly

(* ------------------------------------------------------------------ *)
(* C24  No stale result on done.  After every optparse or              *)
(* optparse_long call that returns -1 (argv exhausted, "--" met, or a  *)
(* non-option met with permute off), optopt is 0 and optarg is NULL.   *)
(* ------------------------------------------------------------------ *)
C24_NoStaleResultOnDone ==
  (lastop \in Scanners /\ ret = -1 /\ ~ub) =>
    /\ parser.optopt = 0
    /\ parser.optarg = NullPtr

(* ------------------------------------------------------------------ *)
(* C25  No double reporting.  Between two optparse_init calls, for any *)
(* interleaving of optparse, optparse_long and optparse_arg calls in   *)
(* either permute mode, no flag occurrence (one character of one       *)
(* cluster token, or one long flag token) is returned as an option     *)
(* result more than once.                                              *)
(* ------------------------------------------------------------------ *)
C25_Reported ==
  <<tok', IF IsCluster(tok') THEN parser.subopt + 1 ELSE 0>>

C25_FirstReport ==
  (lastop' \in Scanners /\ ret' \notin {-1, QMARK} /\ ~ub') =>
    C25_Reported \notin hist.used

C25_NoDoubleReporting == [][C25_FirstReport]_vars

(* ------------------------------------------------------------------ *)
(* C26  Re-parse stability of the permuted array.  As stated: after a  *)
(* complete permuting parse, optparse_init on the reordered array and  *)
(* a second parse with the same option specification yield the same    *)
(* sequence of results (codes, arguments, errors) and the same drained *)
(* positionals as the first parse, and reorder the array no further.   *)
(* ------------------------------------------------------------------ *)
C26_SameArray == hist.pass = 2 => parser.argv = hist.first.argv

C26_SecondDone == hist.pass = 2 /\ hist.phase = "end"

C26_ReparseSame ==
  /\ C26_SameArray
  /\ C26_SecondDone =>
       /\ hist.results = hist.first.results
       /\ hist.drained = hist.first.drained


(* C26, as the code has it.  The second parse never reorders the array *)
(* further.  It yields the results and the drained positionals of the  *)
(* first parse, except when the first parse ended with "option         *)
(* requires an argument" for the last token of the array after having  *)
(* skipped positionals: that option now stands before the first        *)
(* skipped positional, and the second parse returns the option with    *)
(* that positional as its argument, in place of the error, and drains  *)
(* the remaining positionals.                                          *)
C26_Count == Len(hist.first.results)

C26_MissingAtEnd ==
  /\ C26_Count >= 1
  /\ hist.first.results[C26_Count].r = QMARK
  /\ IsPrefix(OPTPARSE_MSG_MISSING, hist.first.results[C26_Count].errmsg)
  /\ hist.first.drained # <<>>

C26_ReparseStable ==
  /\ C26_SameArray
  /\ C26_SecondDone =>
       IF C26_MissingAtEnd
       THEN /\ Len(hist.results) = C26_Count
            /\ \A i \in 1..(C26_Count - 1) : hist.results[i] = hist.first.results[i]
            /\ hist.results[C26_Count].r \notin {-1, QMARK}
            /\ hist.results[C26_Count].errmsg = <<>>
            /\ hist.results[C26_Count].optarg = mem[hist.first.drained[1]]
            /\ hist.drained = Tail(hist.first.drained)
       ELSE /\ hist.results = hist.first.results
            /\ hist.drained = hist.first.drained

(* The second parse of an array that the first parse reordered is complete:
   it reported the same option and drained the same positional. *)
C26_Witness ==
  /\ C26_SecondDone
  /\ parser.argv[1] # 1
  /\ Len(hist.results) >= 1
  /\ Len(hist.drained) >= 1
  /\ hist.results = hist.first.results
  /\ hist.drained = hist.first.drained

====
